---- MODULE Spec2Model ----
(***************************************************************************)
(* Model of the RAG pipeline (rag_pipeline.py) and of its REST front end   *)
(* (rag_api.py): the vector collection, the ingestion and query paths of   *)
(* RAGPipeline, and the Flask handlers that call them from worker threads. *)
(*                                                                         *)
(* Texts are sequences of characters over a small alphabet ("1" a digit,   *)
(* " " whitespace, "a" and "b" letters).  Cosine scores are scaled by 10,  *)
(* so the default score_threshold 0.3 is 3.                                *)
(***************************************************************************)
EXTENDS Integers, Sequences, FiniteSets, TLC

(***************************************************************************)
(* Bounds of the model.                                                    *)
(***************************************************************************)
MaxRequests == 2
MaxStarts == 2
ChunkSize == 2
MaxPieceLen == 4

Workers == {1, 2}

None == "None"

(***************************************************************************)
(* Characters and text helpers.                                            *)
(***************************************************************************)
IsDigit(c) == c = "1"
IsSpace(c) == c = " "

RECURSIVE DropDigits(_)
DropDigits(s) ==
    IF s # <<>> /\ IsDigit(Head(s)) THEN DropDigits(Tail(s)) ELSE s

RECURSIVE DropSpaces(_)
DropSpaces(s) ==
    IF s # <<>> /\ IsSpace(Head(s)) THEN DropSpaces(Tail(s)) ELSE s

RECURSIVE DropTrailingSpaces(_)
DropTrailingSpaces(s) ==
    IF s # <<>> /\ IsSpace(s[Len(s)])
    THEN DropTrailingSpaces(SubSeq(s, 1, Len(s) - 1))
    ELSE s

\* str.strip()
Strip(s) == DropTrailingSpaces(DropSpaces(s))

\* re.sub(r"^\d+", "", chunk_text): the whitespace after the digits stays.
CleanChunkDigitsOnly(s) == DropDigits(s)

\* re.sub(r"^\d+\s*", "", chunk_text)
CleanChunk(s) ==
    IF s # <<>> /\ IsDigit(Head(s)) THEN DropSpaces(DropDigits(s)) ELSE s

\* text_splitter.split_text(text), chunk_overlap 0: consecutive pieces of at
\* most ChunkSize tokens (one character is one token); no piece for "".
RECURSIVE SplitText(_)
SplitText(text) ==
    IF text = <<>> THEN <<>>
    ELSE IF Len(text) <= ChunkSize THEN <<text>>
    ELSE <<SubSeq(text, 1, ChunkSize)>>
         \o SplitText(SubSeq(text, ChunkSize + 1, Len(text)))

\* The inner loop of chunk_text over the pieces of texts[idx].
PageChunks(text, source, idx) ==
    LET pieces == SplitText(text)
    IN  [k \in 1..Len(pieces) |->
            [text |-> CleanChunk(pieces[k]), source |-> source,
             original_index |-> idx, chunk_index |-> k - 1]]

RECURSIVE ChunkFrom(_, _, _)
ChunkFrom(texts, source, i) ==
    IF i > Len(texts) THEN <<>>
    ELSE PageChunks(texts[i], source, i - 1) \o ChunkFrom(texts, source, i + 1)

\* RAGPipeline.chunk_text
ChunkText(texts, source) == ChunkFrom(texts, source, 1)

(***************************************************************************)
(* The embedding model: deterministic, fixed dimension.  A text is mapped  *)
(* to one of four unit vectors by its last character.                      *)
(***************************************************************************)
Encode(text) ==
    IF text = <<>> THEN <<0, -1>>
    ELSE LET c == text[Len(text)]
         IN  IF c = "a" THEN <<1, 0>>
             ELSE IF c = "b" THEN <<0, 1>>
             ELSE IF c = "1" THEN <<-1, 0>>
             ELSE <<0, -1>>

ProbeText == <<"t", "e", "s", "t">>

\* Cosine similarity of two unit vectors, times 10.
Score(u, v) == 10 * (u[1] * v[1] + u[2] * v[2])

(***************************************************************************)
(* Uploaded documents: the text segments the loader extracts from a file.  *)
(***************************************************************************)
Docs == {1, 2, 3}

DocTexts(d) ==
    CASE d = 1 -> << <<"a", "b", "a", "1">> >>
      [] d = 2 -> << <<"1", " ", "a">>, <<"a">> >>
      [] OTHER -> << <<>> >>

RECURSIVE Concat(_)
Concat(texts) ==
    IF texts = <<>> THEN <<>> ELSE Head(texts) \o Concat(Tail(texts))

\* result["text"] of whisper's transcribe: one string for the whole file.
Transcript(d) == Concat(DocTexts(d))

(***************************************************************************)
(* The vector store (Qdrant) as RAGPipeline uses it.  A collection has a   *)
(* configuration and a map from point id to [vector, payload].             *)
(***************************************************************************)
NoConfig == [size |-> 0, distance |-> None]

\* len(test_embedding[0]) of _ensure_collection_exists
VectorSize == Len(Encode(ProbeText))

\* Mutant: create_collection without the check that it is missing.
EnsureAlwaysCreates(exists, config) ==
    [exists |-> TRUE,
     config |-> [size |-> VectorSize, distance |-> "Cosine"],
     created |-> TRUE]

\* RAGPipeline._ensure_collection_exists on a store that answers: the
\* collection after the call, and whether create_collection was called.
EnsureCollectionExists(exists, config) ==
    IF ~exists
    THEN [exists |-> TRUE,
          config |-> [size |-> VectorSize, distance |-> "Cosine"],
          created |-> TRUE]
    ELSE [exists |-> exists, config |-> config, created |-> FALSE]

\* collection_info.points_count
PointsCount(pts) == Cardinality(DOMAIN pts)

\* Mutant: the start id is one past the count.
StartIdPastCount(read_ok, pts) == IF read_ok THEN PointsCount(pts) + 1 ELSE 0

\* The try/except around get_collection in process_pdf and process_audio.
StartId(read_ok, pts) == IF read_ok THEN PointsCount(pts) ELSE 0

\* Mutant: the batch is numbered from 1.
PointIdFromOne(start_id, idx) == start_id + idx + 1

\* id=start_id + idx in embed_and_store
PointId(start_id, idx) == start_id + idx

\* The points list embed_and_store builds, as a map from id to point.
BuildPoints(chunks, start_id) ==
    LET ids == {PointId(start_id, k - 1) : k \in 1..Len(chunks)}
        At(id) == CHOOSE k \in 1..Len(chunks) : PointId(start_id, k - 1) = id
    IN  [id \in ids |->
            [vector |-> Encode(chunks[At(id)].text),
             payload |-> chunks[At(id)]]]

\* qdrant_client.upsert: a point with an id already present is replaced.
Upsert(pts, new) ==
    [id \in (DOMAIN pts) \cup (DOMAIN new) |->
        IF id \in DOMAIN new THEN new[id] ELSE pts[id]]

\* The store accepts a batch only if every vector has the collection's size.
VectorsFit(config, new) ==
    \A id \in DOMAIN new : Len(new[id].vector) = config.size

\* qdrant_client.query_points(limit=top_k, with_payload=True): the nearest
\* points, highest score first (equal scores by ascending id).
Better(pts, q, i, j) ==
    \/ Score(q, pts[i].vector) > Score(q, pts[j].vector)
    \/ Score(q, pts[i].vector) = Score(q, pts[j].vector) /\ i < j

RECURSIVE Nearest(_, _, _, _)
Nearest(pts, q, ids, limit) ==
    IF limit <= 0 \/ ids = {} THEN <<>>
    ELSE LET best == CHOOSE i \in ids :
                        \A j \in ids \ {i} : Better(pts, q, i, j)
         IN  <<[id |-> best, score |-> Score(q, pts[best].vector),
                payload |-> pts[best].payload]>>
             \o Nearest(pts, q, ids \ {best}, limit - 1)

QueryPoints(pts, q, limit) == Nearest(pts, q, DOMAIN pts, limit)

\* Python truth value of a float score: 0.0 (and None) are falsy.
Truthy(score) == score # 0

\* if point.score and point.score >= score_threshold
Passes(point, score_threshold) ==
    Truthy(point.score) /\ point.score >= score_threshold

RetrievedChunk(point) ==
    [text |-> point.payload.text, source |-> point.payload.source,
     score |-> point.score]

RECURSIVE FilterByScore(_, _)
FilterByScore(results, score_threshold) ==
    IF results = <<>> THEN <<>>
    ELSE (IF Passes(Head(results), score_threshold)
          THEN <<RetrievedChunk(Head(results))>> ELSE <<>>)
         \o FilterByScore(Tail(results), score_threshold)

\* RAGPipeline.retrieve on a store that answers.
Retrieve(pts, question, top_k, score_threshold) ==
    FilterByScore(QueryPoints(pts, Encode(question), top_k), score_threshold)

NoInfoAnswer == "I couldn't find any relevant information"
ErrorAnswer == "Error generating answer: <cause>"
GeneratedAnswer == "<response>"

\* Mutant: the exception of ollama.generate is not caught.
GenerateAnswerUncaught(llm_ok) ==
    IF llm_ok THEN [raised |-> FALSE, answer |-> GeneratedAnswer]
    ELSE [raised |-> TRUE, answer |-> None]

\* RAGPipeline.generate_answer: the try/except around ollama.generate.
GenerateAnswer(llm_ok) ==
    IF llm_ok THEN [raised |-> FALSE, answer |-> GeneratedAnswer]
    ELSE [raised |-> FALSE, answer |-> ErrorAnswer]

\* Mutant: the empty result is not short-circuited.
NeverShortCircuits(chunks) == FALSE

\* if not chunks, in RAGPipeline.query
ShortCircuits(chunks) == chunks = <<>>

QueryResult(answer, chunks) ==
    [answer |-> answer, chunks |-> chunks, num_chunks |-> Len(chunks)]

(***************************************************************************)
(* File names and the validation of the Flask handlers.  A file name is    *)
(* [dir, base, ext]; ext is None when the name holds no ".".               *)
(***************************************************************************)
FileName(dir, base, ext) == [dir |-> dir, base |-> base, ext |-> ext]

EmptyName == FileName("", "", None)

\* ALLOWED_EXTENSIONS
AllowedExtensions == {"pdf", "wav", "mp3", "mp4", "m4a", "flac", "ogg"}

\* str.lower() on an extension
Lower(ext) == IF ext = "PDF" THEN "pdf" ELSE ext

\* allowed_file
AllowedFile(name) ==
    name.ext # None /\ Lower(name.ext) \in AllowedExtensions

\* file.filename.lower().endswith('.pdf')
EndsWithPdf(name) == name.ext # None /\ Lower(name.ext) = "pdf"

\* werkzeug's secure_filename: the directory part is dropped.
SecureFilename(name) == [name EXCEPT !.dir = ""]

\* os.path.join(UPLOAD_FOLDER, filename): the path is the secured name.
FilePath(name) == SecureFilename(name)

\* Mutant: upload_pdf without the file type check.
ValidateUploadPdfAnyType(r) ==
    IF ~r.has_file THEN "No file part in the request"
    ELSE IF r.filename = EmptyName THEN "No file selected"
    ELSE "ok"

\* The three checks at the head of upload_pdf.
ValidateUploadPdf(r) ==
    IF ~r.has_file THEN "No file part in the request"
    ELSE IF r.filename = EmptyName THEN "No file selected"
    ELSE IF ~EndsWithPdf(r.filename) THEN "Invalid file type"
    ELSE "ok"

\* The three checks at the head of upload_media.
ValidateUploadMedia(r) ==
    IF ~r.has_file THEN "No file part in the request"
    ELSE IF r.filename = EmptyName THEN "No file selected"
    ELSE IF ~AllowedFile(r.filename) THEN "Invalid file type"
    ELSE "ok"

\* The checks at the head of query (POST /query).  A null question reaches
\* data['question'].strip(), which raises outside the try block.
ValidateQuery(r) ==
    IF ~r.is_json THEN "Invalid content type"
    ELSE IF r.question.kind = "missing" THEN "Missing question"
    ELSE IF r.question.kind = "null" THEN "raises"
    ELSE IF Strip(r.question.text) = <<>> THEN "Empty question"
    ELSE "ok"

\* The checks at the head of answer_question (GET /answer).
ValidateAnswer(r) ==
    IF r.question.kind = "missing" \/ r.question.text = <<>>
    THEN "Missing question"
    ELSE IF Strip(r.question.text) = <<>> THEN "Empty question"
    ELSE "ok"

Validate(r) ==
    CASE r.endpoint = "upload_pdf" -> ValidateUploadPdf(r)
      [] r.endpoint = "upload_media" -> ValidateUploadMedia(r)
      [] r.endpoint = "query" -> ValidateQuery(r)
      [] OTHER -> ValidateAnswer(r)

(***************************************************************************)
(* The requests a client sends.                                            *)
(***************************************************************************)
DefaultTopK == 5
DefaultThreshold == 3

NoQuestion == [kind |-> "missing", text |-> <<>>]
Text(t) == [kind |-> "text", text |-> t]

UploadRequest(endpoint, has_file, name, doc) ==
    [endpoint |-> endpoint, has_file |-> has_file, filename |-> name,
     doc |-> doc, is_json |-> FALSE, question |-> NoQuestion,
     top_k |-> DefaultTopK, score_threshold |-> DefaultThreshold]

QueryRequest(endpoint, is_json, question, top_k, score_threshold) ==
    [endpoint |-> endpoint, has_file |-> FALSE, filename |-> EmptyName,
     doc |-> 1, is_json |-> is_json, question |-> question,
     top_k |-> top_k, score_threshold |-> score_threshold]

UploadNames ==
    {FileName("../", "a", "PDF"), FileName("", "a", "mp3"),
     FileName("", "a", "txt"), EmptyName}

UploadEndpoints == {"upload_pdf", "upload_media"}

\* Uploads that pass validation carry any document; the others carry one.
UploadRequests ==
    {UploadRequest(e, FALSE, EmptyName, 1) : e \in UploadEndpoints}
    \cup {r \in {UploadRequest(e, TRUE, n, d) :
                    e \in UploadEndpoints, n \in UploadNames, d \in Docs} :
            Validate(r) = "ok" \/ r.doc = 1}

Questions ==
    {NoQuestion, Text(<<>>), Text(<<" ">>), Text(<<" ", "a">>)}

TopKs == {1, DefaultTopK}
Thresholds == {-10, 0, DefaultThreshold}

\* POST /query with any top_k and score_threshold; GET /answer and the
\* requests that are turned away with the defaults.
QueryRequests ==
    {QueryRequest("query", FALSE, Text(<<"a">>), DefaultTopK, DefaultThreshold),
     QueryRequest("query", TRUE, [kind |-> "null", text |-> <<>>],
                  DefaultTopK, DefaultThreshold)}
    \cup {QueryRequest("query", TRUE, Text(<<" ", "a">>), k, t) :
            k \in TopKs, t \in Thresholds}
    \cup {QueryRequest(e, e = "query", q, DefaultTopK, DefaultThreshold) :
            e \in {"query", "answer"}, q \in Questions}

Requests == UploadRequests \cup QueryRequests

IsUpload(r) == r.endpoint \in {"upload_pdf", "upload_media"}

(***************************************************************************)
(* State.                                                                  *)
(***************************************************************************)
VARIABLES
    procUp,         \* the API process is running (module rag_api is loaded)
    starts,         \* process starts so far
    colExists,      \* the collection exists in the store
    colConfig,      \* its vector size and distance
    points,         \* its points: id -> [vector, payload]
    createCalls,    \* create_collection calls so far
    assigned,       \* the batches upserted so far, in order
    whisper_model,  \* RAGPipeline.whisper_model
    whisperLoads,   \* whisper.load_model calls so far
    fs,             \* UPLOAD_FOLDER: path -> the file there
    pc,             \* where each worker's handler is
    req,            \* the request each worker is handling
    loc,            \* the handler's local variables and what it did
    resp,           \* the response each handler returned
    nreq,           \* requests received so far
    chunk_text,     \* chunk_text's loop variable: one piece of the splitter
    all_chunks      \* chunk_text's result list for that piece

vars == <<procUp, starts, colExists, colConfig, points, createCalls,
          assigned, whisper_model, whisperLoads, fs, pc, req, loc, resp, nreq,
          chunk_text, all_chunks>>

chunkVars == <<chunk_text, all_chunks>>

storeVars == <<colExists, colConfig, points, createCalls, assigned>>

EmptyPoints == [id \in {} |-> None]

Paths == {FilePath(n) : n \in UploadNames \ {EmptyName}}

NoFile == [doc |-> 0, by |-> 0]

NoResp == [status |-> 0, error |-> None]

NoResult == [answer |-> None, chunks |-> <<>>, num_chunks |-> -1]

InitLoc ==
    [has_path |-> FALSE, filepath |-> EmptyName, saved |-> FALSE,
     invoked |-> FALSE, read |-> NoFile, chunks |-> <<>>,
     start_id |-> 0, count_ok |-> TRUE, failed |-> {},
     before |-> EmptyPoints, pre |-> 0, lost |-> 0, stored |-> FALSE,
     candidates |-> <<>>, retrieved |-> <<>>, searched |-> FALSE,
     llm_calls |-> 0, llm_failed |-> FALSE, result |-> NoResult,
     seen_model |-> "unchecked", loaded |-> FALSE]

IdleRequest == UploadRequest("upload_pdf", FALSE, EmptyName, 1)

\* A collection left in the store by something else, with another schema.
ForeignConfig == [size |-> VectorSize + 1, distance |-> "Euclid"]

Init ==
    /\ procUp = FALSE
    /\ starts = 0
    /\ colExists \in BOOLEAN
    /\ colConfig = IF colExists THEN ForeignConfig ELSE NoConfig
    /\ points = EmptyPoints
    /\ createCalls = 0
    /\ assigned = <<>>
    /\ whisper_model = None
    /\ whisperLoads = 0
    /\ fs = [p \in Paths |-> NoFile]
    /\ pc = [w \in Workers |-> "idle"]
    /\ req = [w \in Workers |-> IdleRequest]
    /\ loc = [w \in Workers |-> InitLoc]
    /\ resp = [w \in Workers |-> NoResp]
    /\ nreq = 0
    /\ chunk_text = <<>>
    /\ all_chunks = <<>>

(***************************************************************************)
(* Process start: rag_api builds the pipeline, whose constructor calls     *)
(* _ensure_collection_exists; an exception there ends the process.         *)
(***************************************************************************)
Startup(store_ok) ==
    /\ ~procUp
    /\ starts < MaxStarts
    /\ starts' = starts + 1
    /\ IF store_ok
       THEN LET e == EnsureCollectionExists(colExists, colConfig)
            IN  /\ colExists' = e.exists
                /\ colConfig' = e.config
                /\ createCalls' = createCalls + (IF e.created THEN 1 ELSE 0)
                /\ procUp' = TRUE
       ELSE UNCHANGED <<colExists, colConfig, createCalls, procUp>>
    /\ whisper_model' = None
    /\ UNCHANGED <<points, assigned, whisperLoads, fs, pc, req, loc, resp,
                   nreq>>
    /\ UNCHANGED chunkVars

\* The process ends between requests; the store and the files remain.
Shutdown ==
    /\ procUp
    /\ \A w \in Workers : pc[w] \in {"idle", "done"}
    /\ procUp' = FALSE
    /\ whisper_model' = None
    /\ pc' = [w \in Workers |-> "idle"]
    /\ req' = [w \in Workers |-> IdleRequest]
    /\ loc' = [w \in Workers |-> InitLoc]
    /\ resp' = [w \in Workers |-> NoResp]
    /\ UNCHANGED <<starts, storeVars, whisperLoads, fs, nreq>>
    /\ UNCHANGED chunkVars

(***************************************************************************)
(* Handlers.                                                               *)
(***************************************************************************)
Respond(w, status, error) ==
    /\ resp' = [resp EXCEPT ![w] = [status |-> status, error |-> error]]
    /\ pc' = [pc EXCEPT ![w] = "done"]

\* The head of a handler: the validation, up to the try block.
Receive(w, r) ==
    /\ procUp
    /\ pc[w] \in {"idle", "done"}
    /\ nreq < MaxRequests
    /\ nreq' = nreq + 1
    /\ req' = [req EXCEPT ![w] = r]
    /\ loc' = [loc EXCEPT ![w] = [InitLoc EXCEPT !.before = points]]
    /\ LET v == Validate(r)
       IN  IF v = "ok"
           THEN /\ pc' = [pc EXCEPT ![w] =
                            IF IsUpload(r) THEN "save" ELSE "retrieve"]
                /\ resp' = [resp EXCEPT ![w] = NoResp]
           ELSE IF v = "raises"
           THEN Respond(w, 500, "Internal server error")
           ELSE Respond(w, 400, v)
    /\ UNCHANGED <<procUp, starts, storeVars, whisper_model, whisperLoads, fs>>
    /\ UNCHANGED chunkVars

\* filename = secure_filename(...); filepath = ...; file.save(filepath)
Save(w, ok) ==
    /\ pc[w] = "save"
    /\ LET path == FilePath(req[w].filename)
       IN  IF ok
           THEN /\ fs' = [fs EXCEPT ![path] = [doc |-> req[w].doc, by |-> w]]
                /\ loc' = [loc EXCEPT ![w].has_path = TRUE,
                                      ![w].filepath = path,
                                      ![w].saved = TRUE]
                /\ pc' = [pc EXCEPT ![w] =
                            IF req[w].endpoint = "upload_pdf"
                            THEN "load" ELSE "wcheck"]
           ELSE /\ fs' = fs
                /\ loc' = [loc EXCEPT ![w].has_path = TRUE,
                                      ![w].filepath = path,
                                      ![w].failed = @ \cup {"save"}]
                /\ pc' = [pc EXCEPT ![w] = "except"]
    /\ UNCHANGED <<procUp, starts, storeVars, whisper_model, whisperLoads,
                   req, resp, nreq>>
    /\ UNCHANGED chunkVars

\* The text segments read from the file at the handler's path, chunked.
Extract(w, texts_of, outcome) ==
    LET f == fs[loc[w].filepath]
    IN  /\ outcome = "ok" => f # NoFile
        /\ IF outcome = "ok"
           THEN /\ loc' = [loc EXCEPT
                            ![w].invoked = TRUE,
                            ![w].read = f,
                            ![w].chunks =
                                ChunkText(texts_of[f.doc], loc[w].filepath)]
                /\ pc' = [pc EXCEPT ![w] = "count"]
           ELSE /\ loc' = [loc EXCEPT ![w].invoked = TRUE,
                                      ![w].failed = @ \cup {outcome}]
                /\ pc' = [pc EXCEPT ![w] = "except"]

\* process_pdf: load_pdf and chunk_text
LoadPdf(w, outcome) ==
    /\ pc[w] = "load"
    /\ Extract(w, [d \in Docs |-> DocTexts(d)], outcome)
    /\ UNCHANGED <<procUp, starts, storeVars, whisper_model, whisperLoads,
                   fs, req, resp, nreq>>
    /\ UNCHANGED chunkVars

\* "if True:": the model is loaded on every call.
AlwaysLoads(model) == TRUE

\* self.whisper_model is None
NeedsLoad(model) == model = None

\* transcribe_audio: if self.whisper_model is None
CheckWhisper(w) ==
    /\ pc[w] = "wcheck"
    /\ loc' = [loc EXCEPT ![w].invoked = TRUE,
                          ![w].seen_model = whisper_model]
    /\ pc' = [pc EXCEPT ![w] =
                IF NeedsLoad(whisper_model) THEN "wload" ELSE "transcribe"]
    /\ UNCHANGED <<procUp, starts, storeVars, whisper_model, whisperLoads,
                   fs, req, resp, nreq>>
    /\ UNCHANGED chunkVars

\* transcribe_audio: self.whisper_model = whisper.load_model(...)
LoadWhisper(w, ok) ==
    /\ pc[w] = "wload"
    /\ IF ok
       THEN /\ whisper_model' = "loaded"
            /\ whisperLoads' = whisperLoads + 1
            /\ loc' = [loc EXCEPT ![w].loaded = TRUE]
            /\ pc' = [pc EXCEPT ![w] = "transcribe"]
       ELSE /\ UNCHANGED <<whisper_model, whisperLoads>>
            /\ loc' = [loc EXCEPT ![w].failed = @ \cup {"extract"}]
            /\ pc' = [pc EXCEPT ![w] = "except"]
    /\ UNCHANGED <<procUp, starts, storeVars, fs, req, resp, nreq>>
    /\ UNCHANGED chunkVars

\* process_audio: the transcription and chunk_text([transcript])
Transcribe(w, outcome) ==
    /\ pc[w] = "transcribe"
    /\ Extract(w, [d \in Docs |-> <<Transcript(d)>>], outcome)
    /\ UNCHANGED <<procUp, starts, storeVars, whisper_model, whisperLoads,
                   fs, req, resp, nreq>>
    /\ UNCHANGED chunkVars

\* process_pdf / process_audio: the read of points_count
ReadCount(w, read_ok) ==
    /\ pc[w] = "count"
    /\ loc' = [loc EXCEPT
                ![w].start_id = StartId(read_ok, points),
                ![w].count_ok = read_ok,
                ![w].failed = IF read_ok THEN @ ELSE @ \cup {"count"}]
    /\ pc' = [pc EXCEPT ![w] = "store"]
    /\ UNCHANGED <<procUp, starts, storeVars, whisper_model, whisperLoads,
                   fs, req, resp, nreq>>
    /\ UNCHANGED chunkVars

\* embed_and_store: encode, build the points, upsert
Store(w, outcome) ==
    /\ pc[w] = "store"
    /\ LET new == BuildPoints(loc[w].chunks, loc[w].start_id)
       IN  /\ outcome = "ok" => colExists /\ VectorsFit(colConfig, new)
           /\ IF outcome = "ok"
              THEN /\ points' = Upsert(points, new)
                   /\ assigned' = Append(assigned,
                            [ids |-> DOMAIN new,
                             n |-> Len(loc[w].chunks),
                             pre |-> PointsCount(points),
                             count_ok |-> loc[w].count_ok])
                   /\ loc' = [loc EXCEPT
                               ![w].pre = PointsCount(points),
                               ![w].lost =
                                   Cardinality(DOMAIN new \cap DOMAIN points),
                               ![w].stored = TRUE]
                   /\ pc' = [pc EXCEPT ![w] = "cleanup"]
              ELSE /\ UNCHANGED <<points, assigned>>
                   /\ loc' = [loc EXCEPT ![w].failed = @ \cup {outcome}]
                   /\ pc' = [pc EXCEPT ![w] = "except"]
    /\ UNCHANGED <<procUp, starts, colExists, colConfig, createCalls,
                   whisper_model, whisperLoads, fs, req, resp, nreq>>
    /\ UNCHANGED chunkVars

FileExists(path) == fs[path] # NoFile

\* After processing: if os.path.exists(filepath)
CleanupExists(w) ==
    /\ pc[w] = "cleanup"
    /\ IF FileExists(loc[w].filepath)
       THEN /\ pc' = [pc EXCEPT ![w] = "remove"]
            /\ resp' = resp
       ELSE Respond(w, 200, None)
    /\ UNCHANGED <<procUp, starts, storeVars, whisper_model, whisperLoads,
                   fs, req, loc, nreq>>
    /\ UNCHANGED chunkVars

\* After processing: os.remove(filepath), then the 200 response
CleanupRemove(w) ==
    /\ pc[w] = "remove"
    /\ IF FileExists(loc[w].filepath)
       THEN /\ fs' = [fs EXCEPT ![loc[w].filepath] = NoFile]
            /\ loc' = loc
            /\ Respond(w, 200, None)
       ELSE /\ fs' = fs
            /\ loc' = [loc EXCEPT ![w].failed = @ \cup {"remove"}]
            /\ pc' = [pc EXCEPT ![w] = "except"]
            /\ resp' = resp
    /\ UNCHANGED <<procUp, starts, storeVars, whisper_model, whisperLoads,
                   req, nreq>>
    /\ UNCHANGED chunkVars

\* Mutant: the except block does not clean up.
KeepsFileOnError(has_path, exists) == FALSE

\* except: if 'filepath' in locals() and os.path.exists(filepath)
\* True when the except block goes on to os.remove.
RemovesOnError(has_path, exists) == has_path /\ exists

ExceptExists(w) ==
    /\ pc[w] = "except"
    /\ IF RemovesOnError(loc[w].has_path,
                         loc[w].has_path /\ FileExists(loc[w].filepath))
       THEN /\ pc' = [pc EXCEPT ![w] = "xremove"]
            /\ resp' = resp
       ELSE Respond(w, 500, "Processing failed")
    /\ UNCHANGED <<procUp, starts, storeVars, whisper_model, whisperLoads,
                   fs, req, loc, nreq>>
    /\ UNCHANGED chunkVars

\* except: os.remove(filepath), then the 500 response
ExceptRemove(w) ==
    /\ pc[w] = "xremove"
    /\ IF FileExists(loc[w].filepath)
       THEN /\ fs' = [fs EXCEPT ![loc[w].filepath] = NoFile]
            /\ Respond(w, 500, "Processing failed")
       ELSE /\ fs' = fs
            /\ Respond(w, 500, "Internal server error")
    /\ UNCHANGED <<procUp, starts, storeVars, whisper_model, whisperLoads,
                   req, loc, nreq>>
    /\ UNCHANGED chunkVars

\* pipeline.query up to the check of the retrieved chunks
RetrieveStep(w, ok) ==
    /\ pc[w] = "retrieve"
    /\ ok => colExists /\ colConfig.size = VectorSize
    /\ IF ok
       THEN LET q == Encode(Strip(req[w].question.text))
                found == QueryPoints(points, q, req[w].top_k)
                chunks == Retrieve(points, Strip(req[w].question.text),
                                   req[w].top_k, req[w].score_threshold)
            IN  IF ShortCircuits(chunks)
                THEN /\ loc' = [loc EXCEPT
                                 ![w].invoked = TRUE,
                                 ![w].searched = TRUE,
                                 ![w].candidates = found,
                                 ![w].retrieved = chunks,
                                 ![w].result = QueryResult(NoInfoAnswer, <<>>)]
                     /\ Respond(w, 200, None)
                ELSE /\ loc' = [loc EXCEPT
                                 ![w].invoked = TRUE,
                                 ![w].searched = TRUE,
                                 ![w].candidates = found,
                                 ![w].retrieved = chunks]
                     /\ pc' = [pc EXCEPT ![w] = "generate"]
                     /\ resp' = resp
       ELSE /\ loc' = [loc EXCEPT ![w].invoked = TRUE]
            /\ Respond(w, 500, "Query failed")
    /\ UNCHANGED <<procUp, starts, storeVars, whisper_model, whisperLoads,
                   fs, req, nreq>>
    /\ UNCHANGED chunkVars

\* pipeline.query: generate_answer, the result, and the handler's response
GenerateStep(w, llm_ok) ==
    /\ pc[w] = "generate"
    /\ LET g == GenerateAnswer(llm_ok)
       IN  IF g.raised
           THEN /\ loc' = [loc EXCEPT ![w].llm_calls = @ + 1,
                                      ![w].llm_failed = ~llm_ok]
                /\ Respond(w, 500, "Query failed")
           ELSE /\ loc' = [loc EXCEPT
                            ![w].llm_calls = @ + 1,
                            ![w].llm_failed = ~llm_ok,
                            ![w].result =
                                QueryResult(g.answer, loc[w].retrieved)]
                /\ Respond(w, 200, None)
    /\ UNCHANGED <<procUp, starts, storeVars, whisper_model, whisperLoads,
                   fs, req, nreq>>
    /\ UNCHANGED chunkVars

ExtractOutcomes == {"ok", "extract", "chunk"}
StoreOutcomes == {"ok", "embed", "insert"}

\* The steps of upload_pdf and upload_media after the validation, with the
\* given ways for the extraction and for embed_and_store to end.
UploadStepsWith(w, extract_outcomes, store_outcomes) ==
    \/ \E ok \in BOOLEAN : Save(w, ok)
    \/ \E o \in extract_outcomes : LoadPdf(w, o)
    \/ CheckWhisper(w)
    \/ \E ok \in BOOLEAN : LoadWhisper(w, ok)
    \/ \E o \in extract_outcomes : Transcribe(w, o)
    \/ \E ok \in BOOLEAN : ReadCount(w, ok)
    \/ \E o \in store_outcomes : Store(w, o)
    \/ CleanupExists(w)
    \/ CleanupRemove(w)
    \/ ExceptExists(w)
    \/ ExceptRemove(w)

UploadSteps(w) == UploadStepsWith(w, ExtractOutcomes, StoreOutcomes)

\* The steps of query and answer_question after the validation.
QuerySteps(w) ==
    \/ \E ok \in BOOLEAN : RetrieveStep(w, ok)
    \/ \E ok \in BOOLEAN : GenerateStep(w, ok)

Lifecycle == (\E ok \in BOOLEAN : Startup(ok)) \/ Shutdown

\* Requests handled one at a time, by one worker.
Next ==
    \/ Lifecycle
    \/ \E r \in Requests : Receive(1, r)
    \/ UploadSteps(1)
    \/ QuerySteps(1)

Spec == Init /\ [][Next]_vars

\* Uploads that pass validation, handled concurrently by the worker threads
\* of one process: a PDF upload and two media uploads, two of them with the
\* same file name.  A step that raises is one failure of the load and one of
\* the store.
ConcRequests ==
    {UploadRequest("upload_pdf", TRUE, FileName("../", "a", "PDF"), 1),
     UploadRequest("upload_media", TRUE, FileName("../", "a", "PDF"), 2),
     UploadRequest("upload_media", TRUE, FileName("", "a", "mp3"), 1)}

ConcNext ==
    \/ \E ok \in BOOLEAN : Startup(ok)
    \/ \E w \in Workers :
        \/ \E r \in ConcRequests : Receive(w, r)
        \/ UploadStepsWith(w, {"ok", "extract"}, {"ok", "insert"})

ConcSpec == Init /\ [][ConcNext]_vars

(***************************************************************************)
(* chunk_text on its own: the body of its inner loop applied to one piece  *)
(* returned by the splitter, any non-empty string of at most MaxPieceLen   *)
(* characters.                                                             *)
(***************************************************************************)
Chars == {"1", " ", "a"}

Pieces == UNION {[1..n -> Chars] : n \in 1..MaxPieceLen}

ChunkInit ==
    /\ procUp = FALSE
    /\ starts = 0
    /\ colExists = FALSE
    /\ colConfig = NoConfig
    /\ points = EmptyPoints
    /\ createCalls = 0
    /\ assigned = <<>>
    /\ whisper_model = None
    /\ whisperLoads = 0
    /\ fs = [p \in Paths |-> NoFile]
    /\ pc = [w \in Workers |-> "idle"]
    /\ req = [w \in Workers |-> IdleRequest]
    /\ loc = [w \in Workers |-> InitLoc]
    /\ resp = [w \in Workers |-> NoResp]
    /\ nreq = 0
    /\ chunk_text \in Pieces
    /\ all_chunks = <<>>

\* cleaned_text = re.sub(...); all_chunks.append({...})
CleanAndAppend ==
    /\ all_chunks = <<>>
    /\ all_chunks' = Append(all_chunks,
                            [text |-> CleanChunk(chunk_text),
                             source |-> EmptyName,
                             original_index |-> 0, chunk_index |-> 0])
    /\ UNCHANGED <<procUp, starts, storeVars, whisper_model, whisperLoads,
                   fs, pc, req, loc, resp, nreq, chunk_text>>

ChunkNext == CleanAndAppend

ChunkSpec == ChunkInit /\ [][ChunkNext]_vars

(***************************************************************************)
(* Properties.                                                             *)
(***************************************************************************)
RECURSIVE SumN(_, _)
SumN(batches, k) == IF k = 0 THEN 0 ELSE SumN(batches, k - 1) + batches[k].n

\* A handler that passed validation and has returned.
Returned(w) == pc[w] = "done" /\ Validate(req[w]) = "ok"

ReturnedUpload(w) == Returned(w) /\ IsUpload(req[w])

ReturnedQuery(w) == Returned(w) /\ ~IsUpload(req[w])

\* The steps of an ingestion (process_pdf / process_audio).
IngestionSteps == {"extract", "chunk", "count", "embed", "insert"}

\* C1: when ingestions run one at a time on a collection that starts empty
\* and every read of the point count succeeds, the k-th batch gets exactly
\* the ids start..start+n-1, where start is the number of points stored
\* before it (the sum of the earlier batch sizes); the ids in the collection
\* are then 0..total-1, and no id is assigned to two chunks.
C1_SequentialIds ==
    (\A k \in 1..Len(assigned) : assigned[k].count_ok) =>
        /\ \A k \in 1..Len(assigned) :
              /\ assigned[k].pre = SumN(assigned, k - 1)
              /\ assigned[k].ids =
                    assigned[k].pre .. (assigned[k].pre + assigned[k].n - 1)
              /\ Cardinality(assigned[k].ids) = assigned[k].n
              /\ \A j \in 1..(k - 1) : assigned[j].ids \cap assigned[k].ids = {}
        /\ DOMAIN points = 0 .. (SumN(assigned, Len(assigned)) - 1)

\* Two batches, of 2 and then 3 chunks: ids 0-1, then 2-4.
C1_Witness ==
    /\ Len(assigned) = 2
    /\ assigned[1].count_ok /\ assigned[2].count_ok
    /\ assigned[1].ids = 0..1
    /\ assigned[2].ids = 2..4
    /\ DOMAIN points = 0..4

\* An ingestion whose upsert came after the count had grown past the value
\* it read: another ingestion inserted in between.
Raced(w) ==
    /\ loc[w].stored
    /\ loc[w].count_ok
    /\ Len(loc[w].chunks) > 0
    /\ loc[w].pre > loc[w].start_id

\* C2: the read of the point count and the upsert are not atomic: when
\* another ingestion inserts between an ingestion's read and its upsert, the
\* upsert replaces the stored points whose ids lie between the count it read
\* and the count at the upsert (at least one), and no step of the ingestion
\* fails.
C2_RaceOverwrites ==
    \A w \in Workers :
        Raced(w) =>
            LET n == Len(loc[w].chunks)
                behind == loc[w].pre - loc[w].start_id
            IN  /\ loc[w].lost > 0
                /\ loc[w].lost = IF n < behind THEN n ELSE behind
                /\ loc[w].failed \cap IngestionSteps = {}
                /\ PointsCount(points) >= loc[w].start_id + n

\* Both ingestions read the same count from the same collection, both
\* return 200, and the collection holds fewer points than they produced.
C2_Witness ==
    /\ \A w \in Workers :
          /\ ReturnedUpload(w)
          /\ resp[w].status = 200
          /\ loc[w].count_ok
          /\ Len(loc[w].chunks) > 0
          /\ loc[w].before = EmptyPoints
    /\ loc[1].start_id = loc[2].start_id
    /\ \E w \in Workers : Raced(w)
    /\ PointsCount(points) < Len(loc[1].chunks) + Len(loc[2].chunks)

\* C3: if any step of an ingestion fails, the handler reports the failure
\* and the collection holds exactly the points it held before.
C3_FailureLeavesCollection ==
    \A w \in Workers :
        (ReturnedUpload(w) /\ loc[w].failed \cap IngestionSteps # {}) =>
            /\ resp[w].status = 500
            /\ points = loc[w].before

\* C4: every stored point stays stored, with the same vector and payload.
C4_AppendOnly ==
    [][\A id \in DOMAIN points :
          id \in DOMAIN points' /\ points'[id] = points[id]]_vars

\* The candidates with score >= score_threshold, in the store's order.
RECURSIVE AtLeast(_, _)
AtLeast(results, score_threshold) ==
    IF results = <<>> THEN <<>>
    ELSE (IF Head(results).score >= score_threshold
          THEN <<RetrievedChunk(Head(results))>> ELSE <<>>)
         \o AtLeast(Tail(results), score_threshold)

\* C5: retrieve returns exactly the candidates with score >= the threshold,
\* in the store's order, and at most top_k of them.
C5_ThresholdFilter ==
    \A w \in Workers :
        loc[w].searched =>
            /\ loc[w].retrieved =
                  AtLeast(loc[w].candidates, req[w].score_threshold)
            /\ Len(loc[w].retrieved) <= req[w].top_k

NoneClears(w) ==
    \A k \in 1..Len(loc[w].candidates) :
        loc[w].candidates[k].score < req[w].score_threshold

\* C6: when no candidate clears the threshold the query returns the fixed
\* answer with no chunks and the language model is not called; the language
\* model is called only with at least one retrieved chunk.
C6_EmptyShortCircuit ==
    \A w \in Workers :
        /\ (loc[w].searched /\ NoneClears(w)) =>
              /\ pc[w] = "done"
              /\ resp[w].status = 200
              /\ loc[w].result = [answer |-> NoInfoAnswer, chunks |-> <<>>,
                                  num_chunks |-> 0]
              /\ loc[w].llm_calls = 0
        /\ (pc[w] = "generate" \/ loc[w].llm_calls > 0) =>
              /\ loc[w].searched
              /\ loc[w].retrieved # <<>>

\* Candidates came back, none above the threshold.
C6_Witness ==
    \E w \in Workers :
        /\ ReturnedQuery(w)
        /\ loc[w].searched
        /\ loc[w].candidates # <<>>
        /\ NoneClears(w)
        /\ loc[w].result.answer = NoInfoAnswer

\* C7: a failure of the language model does not fail the query: the result
\* carries the error text and the retrieved chunks, and the endpoint
\* answers 200.
C7_GenerationFailureAbsorbed ==
    \A w \in Workers :
        loc[w].llm_failed =>
            /\ pc[w] = "done"
            /\ resp[w].status = 200
            /\ loc[w].retrieved # <<>>
            /\ loc[w].result = [answer |-> ErrorAnswer,
                                chunks |-> loc[w].retrieved,
                                num_chunks |-> Len(loc[w].retrieved)]

C7_Witness ==
    \E w \in Workers :
        /\ ReturnedQuery(w)
        /\ loc[w].llm_failed
        /\ loc[w].llm_calls = 1
        /\ Len(loc[w].retrieved) = 2

\* C8: a process start (which runs _ensure_collection_exists) creates the
\* collection, with the probed size and cosine distance, only if it is
\* missing; if it exists there is no create call and its configuration and
\* points are unchanged; over any number of starts it is created at most once.
C8_EnsureIdempotent ==
    [][starts' # starts =>
          /\ points' = points
          /\ colExists =>
                UNCHANGED <<colExists, colConfig, createCalls>>
          /\ (~colExists /\ procUp') =>
                /\ colExists'
                /\ colConfig' = [size |-> VectorSize, distance |-> "Cosine"]
                /\ createCalls' = createCalls + 1
          /\ createCalls' <= 1]_vars

\* A second start that finds the collection it created, holding points.
C8_Witness ==
    /\ starts = 2
    /\ procUp
    /\ createCalls = 1
    /\ PointsCount(points) > 0
    /\ colConfig = [size |-> VectorSize, distance |-> "Cosine"]

\* The requests the validation is to turn away.
Malformed(r) ==
    CASE r.endpoint = "upload_pdf" ->
            \/ ~r.has_file
            \/ r.filename = EmptyName
            \/ r.filename.ext \notin {"pdf", "PDF"}
      [] r.endpoint = "upload_media" ->
            \/ ~r.has_file
            \/ r.filename = EmptyName
            \/ r.filename.ext \notin AllowedExtensions \cup {"PDF"}
      [] OTHER ->
            \/ r.question.kind = "missing"
            \/ r.question.kind = "text"
               /\ \A k \in 1..Len(r.question.text) : r.question.text[k] = " "

C10_TempFileRemoved ==
    \A w \in Workers :
        ReturnedUpload(w) =>
            /\ resp[w].status \in {200, 500}
            /\ ~FileExists(FilePath(req[w].filename))
            /\ resp[w].status = 200 <=> loc[w].stored

\* The file was saved and the batch insert failed.
C10_Witness ==
    \E w \in Workers :
        /\ ReturnedUpload(w)
        /\ loc[w].saved
        /\ "insert" \in loc[w].failed
        /\ resp[w].status = 500

\* C11: every chunk chunk_text produced has a non-empty text after the
\* cleanup, and so has every payload stored in the collection.
C11_ChunkTextNonEmpty ==
    /\ \A w \in Workers :
           \A k \in 1..Len(loc[w].chunks) : loc[w].chunks[k].text # <<>>
    /\ \A id \in DOMAIN points : points[id].payload.text # <<>>

\* The number of digits s starts with.
LeadingDigits(s) ==
    Cardinality({n \in 1..Len(s) : \A i \in 1..n : IsDigit(s[i])})

\* The number of whitespace characters that follow the first n of s.
SpacesAfter(s, n) ==
    Cardinality({m \in 1..(Len(s) - n) : \A i \in (n + 1)..(n + m) : IsSpace(s[i])})

\* C12: the cleanup removes from a piece exactly its leading digit run and
\* the whitespace after it, and leaves unchanged every piece that does not
\* start with a digit run followed by whitespace.
C12_CleanupExact ==
    \A k \in 1..Len(all_chunks) :
        LET n == LeadingDigits(chunk_text)
            m == SpacesAfter(chunk_text, n)
        IN  all_chunks[k].text =
                IF n > 0 /\ m > 0
                THEN SubSeq(chunk_text, n + m + 1, Len(chunk_text))
                ELSE chunk_text

\* C12, amended: the cleanup removes from a piece exactly its leading digit
\* run and the whitespace after it, if any, also when no whitespace follows
\* the digits; a piece that does not start with a digit is unchanged.
C12_CleanupLeadingDigits ==
    \A k \in 1..Len(all_chunks) :
        LET n == LeadingDigits(chunk_text)
            m == SpacesAfter(chunk_text, n)
        IN  all_chunks[k].text =
                IF n > 0
                THEN SubSeq(chunk_text, n + m + 1, Len(chunk_text))
                ELSE chunk_text

\* "1 a1" was cleaned to "a1": the prefix is gone, the later digit stays.
C12_Witness ==
    /\ chunk_text = <<"1", " ", "a", "1">>
    /\ all_chunks # <<>>
    /\ all_chunks[1].text = <<"a", "1">>

\* C13: the model is loaded lazily and the check is not guarded.  A call
\* that finds the model loaded does not load it, and the model once loaded
\* stays; a call that found None loads it whatever the other calls did in
\* between, so that concurrent calls can load it once each.
C13_LazyLoadUnguarded ==
    /\ \A w \in Workers :
           /\ loc[w].seen_model = "loaded" =>
                  pc[w] # "wload" /\ ~loc[w].loaded
           /\ loc[w].seen_model = None =>
                  \/ pc[w] = "wload"
                  \/ loc[w].loaded
                  \/ "extract" \in loc[w].failed
           /\ loc[w].loaded => loc[w].seen_model = None
    /\ whisperLoads <= Cardinality(Workers)
    /\ whisper_model = None <=> whisperLoads = 0

\* Double initialization: both handlers saw None and both loaded the model.
C13_Witness ==
    /\ whisperLoads = 2
    /\ \A w \in Workers :
           /\ req[w].endpoint = "upload_media"
           /\ loc[w].seen_model = None
           /\ loc[w].loaded

\* The handler is inside pipeline.process_pdf / process_audio.
Processing(w) ==
    pc[w] \in {"load", "wcheck", "wload", "transcribe", "count", "store"}

\* The file worker w's request saved.
OwnFile(w) == [doc |-> req[w].doc, by |-> w]

\* C14: concurrent uploads do not interfere through the temporary file: a
\* handler's ingestion reads the file its own request saved, and while a
\* handler is processing, the file it saved is still there, as it saved it.
C14_NoTempFileInterference ==
    \A w \in Workers :
        /\ loc[w].read # NoFile => loc[w].read = OwnFile(w)
        /\ loc[w].saved /\ Processing(w) => fs[loc[w].filepath] = OwnFile(w)

====
